---------------------------- MODULE Spec2Model ----------------------------
(***************************************************************************)
(* A model of the trace viewer: trace ingestion (core/TraceModel.ts), the  *)
(* render engine and its hit test (core/CanvasRenderer.ts), the navigation *)
(* controller (components/Timeline.tsx), the uploader                      *)
(* (components/TraceUploader.tsx) and the application shell (App).         *)
(*                                                                         *)
(* Numbers are exact: timestamps are integers and every derived quantity   *)
(* (pixels, zoomed ranges) is an exact rational, so a difference the model *)
(* shows is never a rounding artefact of IEEE doubles.                     *)
(*                                                                         *)
(* An optional JSON field is a set: {} when the field is absent and {v}    *)
(* when it holds v.  A JavaScript Map is a sequence in insertion order.    *)
(***************************************************************************)
EXTENDS Integers, Sequences, FiniteSets, TLC

VARIABLES
    data,          \* parseTrace: the parsed JSON value handed to it
    out,           \* parseTrace: "pending" before the call, then its outcome
    model,         \* App: useState model (NullModel, or a TraceModel)
    selectedEvent, \* App: useState selectedEvent ({} is null)
    uploader,      \* TraceUploader: [isLoading, error] of the mounted instance
    reads,         \* FileReaders in flight: [id, file, orphan]
    viewState,     \* Timeline: the viewState ref
    hoveredEvent,  \* Timeline: useState hoveredEvent ({} is null)
    keysPressed,   \* Timeline: the keysPressed ref
    lastOp,        \* the handler that ran last, with its outcome
    steps          \* number of handler runs so far (bounds the exploration)

parseVars == <<data, out>>
appVars == <<model, selectedEvent, uploader, reads>>
timelineVars == <<viewState, hoveredEvent, keysPressed>>
vars == <<data, out, model, selectedEvent, uploader, reads, viewState, hoveredEvent,
          keysPressed, lastOp, steps>>

---------------------------------------------------------------------------
(* Bounds of the model. *)

MaxEvents == 3     \* records in one input array
MaxTs == 2         \* timestamps are drawn from 0..MaxTs
MaxDur == 2        \* durations are drawn from 0..MaxDur (or absent)
MaxSteps == 3      \* handler runs in one behaviour of SpecView
MaxReads == 2      \* FileReader reads in flight at once in SpecApp
MaxPan == 4        \* SpecApp pans the window at most this far from the trace start
MaxNameLen == 5    \* SpecHash hashes every name of up to this many characters

---------------------------------------------------------------------------
(* Small helpers. *)

Max(a, b) == IF a >= b THEN a ELSE b
Min(a, b) == IF a <= b THEN a ELSE b

Range(s) == {s[i] : i \in DOMAIN s}

\* All sequences over S of length at most n.
SeqsUpTo(S, n) == UNION {[1..k -> S] : k \in 0..n}

\* The value of an optional field that is known to be present.
The(opt) == CHOOSE v \in opt : TRUE

---------------------------------------------------------------------------
(* JSON input of parseTrace.                                               *)
(*                                                                         *)
(* An element of the input array is a JSON null or an object; an object    *)
(* carries the fields of interface TraceEvent, pid/tid/dur/args.name being *)
(* optional.  ts is a JSON number, on which Number() is the identity.      *)

NoArgsName == {}

Rec(name, ph, ts, dur, pid, tid, argsName) ==
    [json |-> "object", name |-> name, ph |-> ph, ts |-> ts, dur |-> dur,
     pid |-> pid, tid |-> tid, argsName |-> argsName]

NullElement ==
    [json |-> "null", name |-> "", ph |-> "", ts |-> 0, dur |-> {},
     pid |-> {}, tid |-> {}, argsName |-> {}]

\* JSON documents: an array, an object (with or without an array under
\* traceEvents), null, or another scalar.
JsonArray(elems) == [kind |-> "array", elems |-> elems, hasTraceEvents |-> FALSE]
JsonObject(hasArr, elems) == [kind |-> "object", elems |-> elems, hasTraceEvents |-> hasArr]
JsonNull == [kind |-> "null", elems |-> <<>>, hasTraceEvents |-> FALSE]
JsonScalar == [kind |-> "scalar", elems |-> <<>>, hasTraceEvents |-> FALSE]

---------------------------------------------------------------------------
(* parseTrace (core/TraceModel.ts).                                        *)

\* JavaScript truthiness of an optional numeric field: undefined and 0 are falsy.
Truthy(opt) == opt # {} /\ opt # {0}

\* `!event.pid && !event.tid`
IsSkipped(e) == ~Truthy(e.pid) /\ ~Truthy(e.tid)

\* `event.dur ? Number(event.dur) : 0`
DurOf(e) == IF Truthy(e.dur) THEN The(e.dur) ELSE 0

\* `dur ? ts + dur : ts` of an event whose dur has been normalised.
EndTime(ev) == IF ev.dur # 0 THEN ev.ts + ev.dur ELSE ev.ts

\* Template literals `Process ${pid}` / `Thread ${tid}` and a literal name.
DefaultProcessName(pid) == [fmt |-> "Process {}", id |-> pid, text |-> ""]
DefaultThreadName(tid) == [fmt |-> "Thread {}", id |-> tid, text |-> ""]
GivenName(text) == [fmt |-> "literal", id |-> {}, text |-> text]

\* The event object as stored in a Thread: the input record (identified by
\* its position idx in the input array) with ts and dur normalised.
StoredEvent(e, idx) ==
    [idx |-> idx, name |-> e.name, ph |-> e.ph, ts |-> e.ts, dur |-> DurOf(e),
     pid |-> e.pid, tid |-> e.tid, depth |-> 0]

\* Index of the entry keyed k in a Map kept as a sequence, 0 when there is none.
ProcIndex(procs, pid) ==
    IF \E i \in DOMAIN procs : procs[i].pid = pid
    THEN CHOOSE i \in DOMAIN procs : procs[i].pid = pid
    ELSE 0

ThreadIndex(threads, tid) ==
    IF \E i \in DOMAIN threads : threads[i].tid = tid
    THEN CHOOSE i \in DOMAIN threads : threads[i].tid = tid
    ELSE 0

\* `if (ts < minTime) minTime = ts`, minTime starting at Infinity ({}).
UpdateMin(minTime, ts) ==
    IF minTime = {} \/ ts < The(minTime) THEN {ts} ELSE minTime

\* Mutant of UpdateMax: the comparison of the minTime branch copied over.
UpdateMax_Reversed(maxTime, endTime) ==
    IF maxTime = {} \/ endTime < The(maxTime) THEN {endTime} ELSE maxTime

\* `if (endTime > maxTime) maxTime = endTime`, maxTime starting at -Infinity ({}).
UpdateMax(maxTime, endTime) ==
    IF maxTime = {} \/ endTime > The(maxTime) THEN {endTime} ELSE maxTime

\* A truthy `event.args?.name`.
HasArgsName(e) == e.argsName # {} /\ e.argsName # {""}

\* Lines 81-90: a Metadata record names its process or thread or is
\* ignored; any other record is pushed on its thread's event list.
ApplyToThread(proc, thread, e, idx) ==
    IF e.ph = "M"
    THEN IF e.name = "process_name" /\ HasArgsName(e)
         THEN [proc |-> [proc EXCEPT !.name = GivenName(The(e.argsName))],
               thread |-> thread]
         ELSE IF e.name = "thread_name" /\ HasArgsName(e)
         THEN [proc |-> proc,
               thread |-> [thread EXCEPT !.name = GivenName(The(e.argsName))]]
         ELSE [proc |-> proc, thread |-> thread]
    ELSE [proc |-> proc,
          thread |-> [thread EXCEPT !.events = Append(@, StoredEvent(e, idx))]]

\* One iteration of the ingestion loop (lines 48-91) on element idx.
\* acc.threw is set when the iteration raises (a property read on null).
IngestOne(acc, e, idx) ==
    IF acc.threw THEN acc
    ELSE IF e.json = "null" THEN [acc EXCEPT !.threw = TRUE]
    ELSE IF IsSkipped(e) THEN acc
    ELSE
      LET ev == StoredEvent(e, idx)
          pi0 == ProcIndex(acc.processes, e.pid)
          procs1 == IF pi0 = 0
                    THEN Append(acc.processes,
                                [pid |-> e.pid, name |-> DefaultProcessName(e.pid),
                                 threads |-> <<>>])
                    ELSE acc.processes
          pi == IF pi0 = 0 THEN Len(procs1) ELSE pi0
          proc1 == procs1[pi]
          ti0 == ThreadIndex(proc1.threads, e.tid)
          threads1 == IF ti0 = 0
                      THEN Append(proc1.threads,
                                  [tid |-> e.tid, name |-> DefaultThreadName(e.tid),
                                   events |-> <<>>, maxDepth |-> 0])
                      ELSE proc1.threads
          ti == IF ti0 = 0 THEN Len(threads1) ELSE ti0
          r == ApplyToThread(proc1, threads1[ti], e, idx)
          proc2 == [r.proc EXCEPT !.threads = [threads1 EXCEPT ![ti] = r.thread]]
      IN [processes |-> [procs1 EXCEPT ![pi] = proc2],
          minTime |-> UpdateMin(acc.minTime, ev.ts),
          maxTime |-> UpdateMax(acc.maxTime, EndTime(ev)),
          threw |-> FALSE]

RECURSIVE IngestFrom(_, _, _)
IngestFrom(acc, elems, i) ==
    IF i > Len(elems) THEN acc
    ELSE IngestFrom(IngestOne(acc, elems[i], i), elems, i + 1)

\* Mutant of InsertByTs: an unstable sort, equal timestamps reversed.
InsertByTs_BeforeEqual(sorted, ev) ==
    LET k == Cardinality({i \in DOMAIN sorted : sorted[i].ts < ev.ts})
    IN SubSeq(sorted, 1, k) \o <<ev>> \o SubSeq(sorted, k + 1, Len(sorted))

\* `thread.events.sort((a, b) => a.ts - b.ts)`: Array.prototype.sort is
\* stable, so an element goes after every element whose ts is <= its own.
InsertByTs(sorted, ev) ==
    LET k == Cardinality({i \in DOMAIN sorted : sorted[i].ts <= ev.ts})
    IN SubSeq(sorted, 1, k) \o <<ev>> \o SubSeq(sorted, k + 1, Len(sorted))

RECURSIVE SortFrom(_, _, _)
SortFrom(sorted, events, i) ==
    IF i > Len(events) THEN sorted
    ELSE SortFrom(InsertByTs(sorted, events[i]), events, i + 1)

SortByTs(events) == SortFrom(<<>>, events, 1)

\* Mutant of StillOpen: the removal test written `stackEnd < event.ts`.
StillOpen_StrictPop(stackEvent, event) == ~(EndTime(stackEvent) < event.ts)

\* Lines 105-111: the stack entries that survive the backwards removal
\* loop when `event` is processed.
StillOpen(stackEvent, event) == ~(EndTime(stackEvent) <= event.ts)

PopEnded(stack, event) == SelectSeq(stack, LAMBDA s : StillOpen(s, event))

\* Mutant of NextMaxDepth: maxDepth overwritten by each event's depth.
NextMaxDepth_Last(maxDepth, depth) == depth

\* Line 124: `thread.maxDepth = Math.max(thread.maxDepth, event.depth)`.
NextMaxDepth(maxDepth, depth) == Max(maxDepth, depth)

\* Lines 99-126: the depth pass over one thread's sorted events.
\* st = [stack, done, maxDepth].
DepthStep(st, event) ==
    LET stack1 == PopEnded(st.stack, event)
        ev1 == [event EXCEPT !.depth = Len(stack1)]
    IN [stack |-> Append(stack1, ev1),
        done |-> Append(st.done, ev1),
        maxDepth |-> NextMaxDepth(st.maxDepth, ev1.depth)]

RECURSIVE DepthFrom(_, _, _)
DepthFrom(st, events, i) ==
    IF i > Len(events) THEN st
    ELSE DepthFrom(DepthStep(st, events[i]), events, i + 1)

\* Lines 95-126 for one thread.
FinishThread(thread) ==
    LET sorted == SortByTs(thread.events)
        st == DepthFrom([stack |-> <<>>, done |-> <<>>, maxDepth |-> 0], sorted, 1)
    IN [thread EXCEPT !.events = st.done, !.maxDepth = st.maxDepth]

FinishProcess(proc) ==
    [proc EXCEPT !.threads = [t \in DOMAIN proc.threads |-> FinishThread(proc.threads[t])]]

\* Lines 33-42: the array of records of a recognised input, if any.
IsRecognised(d) == d.kind = "array" \/ (d.kind = "object" /\ d.hasTraceEvents)

\* parseTrace: [kind |-> "model", ...] when it returns, [kind |-> "error"]
\* when it raises.
ErrorResult == [kind |-> "error", processes |-> <<>>, minTime |-> {}, maxTime |-> {}]

parseTrace(d) ==
    IF ~IsRecognised(d) THEN ErrorResult
    ELSE
      LET acc == IngestFrom([processes |-> <<>>, minTime |-> {}, maxTime |-> {},
                             threw |-> FALSE], d.elems, 1)
      IN IF acc.threw THEN ErrorResult
         ELSE [kind |-> "model",
               processes |-> [p \in DOMAIN acc.processes |-> FinishProcess(acc.processes[p])],
               minTime |-> acc.minTime, maxTime |-> acc.maxTime]

Pending == [kind |-> "pending", processes |-> <<>>, minTime |-> {}, maxTime |-> {}]

---------------------------------------------------------------------------
(* Exact rational numbers <<n, d>>, d > 0, in lowest terms: the model's    *)
(* stand-in for the doubles of the view state and of pixel coordinates.    *)
(* <<1, 0>> is Infinity, <<-1, 0>> is -Infinity and <<0, 0>> is NaN, with  *)
(* the arithmetic and the comparisons of IEEE 754; a zero is +0, which is  *)
(* what the one divisor that can be zero, visibleEndTime -                 *)
(* visibleStartTime of equal bounds, is.                                   *)

Abs(x) == IF x < 0 THEN -x ELSE x

RECURSIVE GCD(_, _)
GCD(a, b) == IF b = 0 THEN a ELSE GCD(b, a % b)

Q(n, d) ==
    IF d = 0 THEN <<IF n > 0 THEN 1 ELSE IF n < 0 THEN -1 ELSE 0, 0>>
    ELSE LET sgn == IF d < 0 THEN -1 ELSE 1
             g == GCD(Abs(n), Abs(d))
         IN <<(sgn * n) \div g, (sgn * d) \div g>>

QInt(n) == <<n, 1>>
QNaN == <<0, 0>>
QIsNaN(a) == a = QNaN
QIsFinite(a) == a[2] # 0
QNeg(a) == <<-a[1], a[2]>>
QAdd(a, b) ==
    IF QIsNaN(a) \/ QIsNaN(b) THEN QNaN
    ELSE IF ~QIsFinite(a) /\ ~QIsFinite(b) THEN (IF a = b THEN a ELSE QNaN)
    ELSE IF ~QIsFinite(a) THEN a
    ELSE IF ~QIsFinite(b) THEN b
    ELSE Q(a[1] * b[2] + b[1] * a[2], a[2] * b[2])
QSub(a, b) == QAdd(a, QNeg(b))
QMul(a, b) == Q(a[1] * b[1], a[2] * b[2])
QDiv(a, b) == QMul(a, Q(b[2], b[1]))
QLt(a, b) ==
    /\ ~QIsNaN(a) /\ ~QIsNaN(b)
    /\ IF ~QIsFinite(a) /\ ~QIsFinite(b) THEN a[1] < b[1]
       ELSE a[1] * b[2] < b[1] * a[2]
QLe(a, b) ==
    /\ ~QIsNaN(a) /\ ~QIsNaN(b)
    /\ IF ~QIsFinite(a) /\ ~QIsFinite(b) THEN a[1] <= b[1]
       ELSE a[1] * b[2] <= b[1] * a[2]
QMax(a, b) == IF QIsNaN(a) \/ QIsNaN(b) THEN QNaN ELSE IF QLe(b, a) THEN a ELSE b
QMin(a, b) == IF QIsNaN(a) \/ QIsNaN(b) THEN QNaN ELSE IF QLe(a, b) THEN a ELSE b

---------------------------------------------------------------------------
(* CanvasRenderer (core/CanvasRenderer.ts).                                *)

TRACK_HEIGHT == 24
TRACK_PADDING == 4
LABEL_WIDTH == 220
HEADER_HEIGHT == 30

\* render's timeToPixel (lines 52-55).
timeToPixel(time, visibleStartTime, visibleEndTime, width) ==
    LET timeRange == QSub(visibleEndTime, visibleStartTime)
    IN QAdd(QInt(LABEL_WIDTH),
            QMul(QDiv(QSub(time, visibleStartTime), timeRange),
                 QInt(width - LABEL_WIDTH)))

\* getEventAt's pixelToTime (lines 204-207).
pixelToTime(px, visibleStartTime, visibleEndTime, width) ==
    LET timeRange == QSub(visibleEndTime, visibleStartTime)
    IN QAdd(visibleStartTime,
            QMul(QDiv(QSub(px, QInt(LABEL_WIDTH)), QInt(width - LABEL_WIDTH)),
                 timeRange))

\* `(thread.maxDepth || 0) + 1` rows of TRACK_HEIGHT.
TrackPixelHeight(thread) == (thread.maxDepth + 1) * TRACK_HEIGHT

\* drawThreadTrack, lines 118-138: the rectangle filled for one event, or
\* none when the event is culled.  y is the top of the thread's band.
\* `w < 0` is false for a NaN; the canvas's fillRect does nothing when one
\* of its arguments is not finite.
SliceRect(event, y, vs, ve, width) ==
    LET endTime == QInt(EndTime(event))
        x == QMax(QInt(LABEL_WIDTH), timeToPixel(QInt(event.ts), vs, ve, width))
        endX == QMin(QInt(width), timeToPixel(endTime, vs, ve, width))
        w == QMax(QInt(1), QSub(endX, x))
    IN IF QLt(endTime, vs) \/ QLt(ve, QInt(event.ts)) THEN <<>>
       ELSE IF QLt(w, QInt(0)) THEN <<>>
       ELSE IF ~QIsFinite(x) \/ ~QIsFinite(w) THEN <<>>
       ELSE <<[event |-> event, x |-> x, y |-> y + event.depth * TRACK_HEIGHT,
               w |-> w, h |-> TRACK_HEIGHT, bandTop |-> y]>>

RECURSIVE DrawSlices(_, _, _, _, _, _)
DrawSlices(events, i, y, vs, ve, width) ==
    IF i > Len(events) THEN <<>>
    ELSE SliceRect(events[i], y, vs, ve, width)
             \o DrawSlices(events, i + 1, y, vs, ve, width)

\* render, line 79: the track is off the canvas and is not drawn.
TrackCulled(currentY, h, height) == ~(currentY + h > 0 /\ currentY < height)

\* A cursor that advances only past the tracks that are drawn.
AfterTrack_OnlyWhenDrawn(currentY, h, culled) ==
    IF culled THEN currentY ELSE currentY + h + TRACK_PADDING

\* render, line 82: the cursor after a track, drawn or not.
AfterTrack(currentY, h, culled) == currentY + h + TRACK_PADDING

\* render, lines 75-83: the tracks of one process from thread i on.
\* Returns the rectangles filled, in drawing order, the top of the band of
\* every thread, and the final cursor.
RECURSIVE RenderThreads(_, _, _, _, _, _, _)
RenderThreads(threads, i, currentY, vs, ve, width, height) ==
    IF i > Len(threads) THEN [drawn |-> <<>>, bands |-> <<>>, currentY |-> currentY]
    ELSE
      LET h == TrackPixelHeight(threads[i])
          culled == TrackCulled(currentY, h, height)
          here == IF ~culled
                  THEN DrawSlices(threads[i].events, 1, currentY, vs, ve, width)
                  ELSE <<>>
          rest == RenderThreads(threads, i + 1, AfterTrack(currentY, h, culled),
                                vs, ve, width, height)
      IN [drawn |-> here \o rest.drawn,
          bands |-> <<[tid |-> threads[i].tid, top |-> currentY, culled |-> culled]>>
                        \o rest.bands,
          currentY |-> rest.currentY]

\* render, lines 63-84, from process i on.
RECURSIVE RenderProcesses(_, _, _, _, _, _, _)
RenderProcesses(procs, i, currentY, vs, ve, width, height) ==
    IF i > Len(procs) THEN [drawn |-> <<>>, bands |-> <<>>]
    ELSE
      LET r == RenderThreads(procs[i].threads, 1,
                             currentY + TRACK_HEIGHT + TRACK_PADDING,
                             vs, ve, width, height)
          rest == RenderProcesses(procs, i + 1, r.currentY, vs, ve, width, height)
      IN [drawn |-> r.drawn \o rest.drawn, bands |-> r.bands \o rest.bands]

\* render: the event rectangles of one frame, in drawing order (a later
\* rectangle is painted over an earlier one).
Render(m, vs, ve, scrollTop, width, height) ==
    RenderProcesses(m.processes, 1, HEADER_HEIGHT - scrollTop, vs, ve, width, height).drawn

\* render: the band of every thread, in the order of the loops.
RenderBands(m, vs, ve, scrollTop, width, height) ==
    RenderProcesses(m.processes, 1, HEADER_HEIGHT - scrollTop, vs, ve, width, height).bands

\* Math.ceil.
QCeil(a) == IF ~QIsFinite(a) THEN a ELSE QInt(0 - ((0 - a[1]) \div a[2]))

\* Math.pow(10, Math.floor(Math.log10(x))) of a finite x > 0: the power of
\* ten m with m <= x < 10 * m, searched from m.
RECURSIVE Magnitude(_, _)
Magnitude(x, m) ==
    IF QLt(x, m) THEN Magnitude(x, QDiv(m, QInt(10)))
    ELSE IF QLe(QMul(m, QInt(10)), x) THEN Magnitude(x, QMul(m, QInt(10)))
    ELSE m

\* drawGrid, lines 176-180: the distance between grid lines.  log10 of 0 is
\* -Infinity and of a negative number NaN: either way the step is NaN.
GridStep(start, end) ==
    LET idealStep == QDiv(QSub(end, start), QInt(10))
    IN IF ~QIsFinite(idealStep) \/ ~QLt(QInt(0), idealStep) THEN QNaN
       ELSE LET magnitude == Magnitude(idealStep, QInt(1))
            IN QMul(QCeil(QDiv(idealStep, magnitude)), magnitude)

\* drawGrid, lines 184-190: the loop from t on; the x of the lines drawn.
RECURSIVE GridFrom(_, _, _, _, _)
GridFrom(t, step, start, end, width) ==
    IF ~QLe(t, end) THEN <<>>
    ELSE LET x == timeToPixel(t, start, end, width)
         IN (IF QLt(QInt(LABEL_WIDTH), x) THEN <<x>> ELSE <<>>)
                \o GridFrom(QAdd(t, step), step, start, end, width)

\* drawGrid (lines 165-192).
drawGrid(start, end, width) ==
    LET step == GridStep(start, end)
        firstLine == QMul(QCeil(QDiv(start, step)), step)
    IN GridFrom(firstLine, step, start, end, width)

\* A scan that keeps the last event at depthAtY whose interval holds `time`.
FirstHit_Last(events, depthAtY, time) ==
    LET hits == {k \in DOMAIN events :
                    /\ events[k].depth = depthAtY
                    /\ QLe(QInt(events[k].ts), time)
                    /\ QLe(time, QInt(EndTime(events[k])))}
    IN IF hits = {} THEN {}
       ELSE {events[CHOOSE k \in hits : \A j \in hits : j <= k]}

\* getEventAt, lines 224-231: the first event of the thread at depthAtY
\* whose interval holds `time`.
FirstHit(events, depthAtY, time) ==
    LET hits == {k \in DOMAIN events :
                    /\ events[k].depth = depthAtY
                    /\ QLe(QInt(events[k].ts), time)
                    /\ QLe(time, QInt(EndTime(events[k])))}
    IN IF hits = {} THEN {}
       ELSE {events[CHOOSE k \in hits : \A j \in hits : k <= j]}

\* Floor of a quotient of integers, b > 0.
FloorDiv(a, b) == a \div b

\* getEventAt, lines 211-233, from thread i on: the event found, the top of
\* the band of every thread the loop came to, and the cursor.
RECURSIVE HitThreads(_, _, _, _, _)
HitThreads(threads, i, currentY, y, time) ==
    IF i > Len(threads) THEN [hit |-> {}, bands |-> <<>>, currentY |-> currentY]
    ELSE
      LET h == TrackPixelHeight(threads[i])
          found == IF y >= currentY /\ y <= currentY + h
                   THEN FirstHit(threads[i].events,
                                 FloorDiv(y - currentY, TRACK_HEIGHT), time)
                   ELSE {}
          band == <<[tid |-> threads[i].tid, top |-> currentY]>>
      IN IF found # {} THEN [hit |-> found, bands |-> band, currentY |-> currentY]
         ELSE LET rest == HitThreads(threads, i + 1, currentY + h + TRACK_PADDING, y, time)
              IN [rest EXCEPT !.bands = band \o @]

\* getEventAt, lines 209-235, from process i on.
RECURSIVE HitProcesses(_, _, _, _, _)
HitProcesses(procs, i, currentY, y, time) ==
    IF i > Len(procs) THEN [hit |-> {}, bands |-> <<>>]
    ELSE
      LET r == HitThreads(procs[i].threads, 1,
                          currentY + TRACK_HEIGHT + TRACK_PADDING, y, time)
      IN IF r.hit # {} THEN [hit |-> r.hit, bands |-> r.bands]
         ELSE LET rest == HitProcesses(procs, i + 1, r.currentY, y, time)
              IN [hit |-> rest.hit, bands |-> r.bands \o rest.bands]

\* getEventAt (lines 194-237): {} is null.  x is a rational pixel, y an
\* integer pixel.
getEventAt(m, x, y, vs, ve, scrollTop, width) ==
    IF QLt(x, QInt(LABEL_WIDTH)) THEN {}
    ELSE HitProcesses(m.processes, 1, HEADER_HEIGHT - scrollTop, y,
                      pixelToTime(x, vs, ve, width)).hit

\* getEventAt: the bands its loops came to before they returned.
HitBands(m, x, y, vs, ve, scrollTop, width) ==
    IF QLt(x, QInt(LABEL_WIDTH)) THEN <<>>
    ELSE HitProcesses(m.processes, 1, HEADER_HEIGHT - scrollTop, y,
                      pixelToTime(x, vs, ve, width)).bands

---------------------------------------------------------------------------
(* Timeline (components/Timeline.tsx).                                     *)
(*                                                                         *)
(* The container's clientWidth and clientHeight are fixed, and its         *)
(* bounding rectangle starts at the client origin, so clientX/clientY and  *)
(* offsetX are container coordinates.                                      *)

ClientWidth == 320
ClientHeight == 200

NullModel == [kind |-> "null", processes |-> <<>>, minTime |-> {}, maxTime |-> {}]

Mounted == model.kind = "model"

\* The viewState ref while no Timeline is mounted.
NoViewState ==
    [visibleStartTime |-> QInt(0), visibleEndTime |-> QInt(0), scrollTop |-> 0,
     isDragging |-> FALSE, lastMouseX |-> 0, lastMouseY |-> 0,
     dragStartX |-> 0, dragStartY |-> 0]

\* useRef's initial value (lines 16-25).
InitialViewState(m) ==
    [visibleStartTime |-> QInt(The(m.minTime)), visibleEndTime |-> QInt(The(m.maxTime)),
     scrollTop |-> 0, isDragging |-> FALSE, lastMouseX |-> 0, lastMouseY |-> 0,
     dragStartX |-> 0, dragStartY |-> 0]

\* The effect on [model] (lines 35-45).
ResetView(st, m) ==
    [st EXCEPT !.visibleStartTime = QInt(The(m.minTime)),
               !.visibleEndTime = QInt(The(m.maxTime)),
               !.scrollTop = 0]

zoomSpeed == Q(5, 100)
panFraction == Q(2, 100)

\* A zoom about the centre with the two ends exchanged.
ZoomAboutCenter_EndsSwapped(st, newRange) ==
    LET center == QDiv(QAdd(st.visibleStartTime, st.visibleEndTime), QInt(2))
    IN [st EXCEPT !.visibleStartTime = QAdd(center, QDiv(newRange, QInt(2))),
                  !.visibleEndTime = QSub(center, QDiv(newRange, QInt(2)))]

\* render(), lines 74-99: one held key applied to the state; `range` was
\* read once, before the first key.
ZoomAboutCenter(st, newRange) ==
    LET center == QDiv(QAdd(st.visibleStartTime, st.visibleEndTime), QInt(2))
    IN [st EXCEPT !.visibleStartTime = QSub(center, QDiv(newRange, QInt(2))),
                  !.visibleEndTime = QAdd(center, QDiv(newRange, QInt(2)))]

\* A shift that moves the start of the window and leaves its end.
ShiftBy_StartOnly(st, shift) ==
    [st EXCEPT !.visibleStartTime = QAdd(@, shift)]

\* render() lines 91-92 and 97-98, handleWheel lines 146-147 and
\* handleMouseMove lines 177-178: both ends move by the same shift.
ShiftBy(st, shift) ==
    [st EXCEPT !.visibleStartTime = QAdd(@, shift),
               !.visibleEndTime = QAdd(@, shift)]

ApplyKeys(st, keys) ==
    LET range == QSub(st.visibleEndTime, st.visibleStartTime)
        s1 == IF "w" \in keys
              THEN ZoomAboutCenter(st, QMul(range, QSub(QInt(1), zoomSpeed)))
              ELSE st
        s2 == IF "s" \in keys
              THEN ZoomAboutCenter(s1, QMul(range, QAdd(QInt(1), zoomSpeed)))
              ELSE s1
        s3 == IF "a" \in keys THEN ShiftBy(s2, QNeg(QMul(range, panFraction))) ELSE s2
        s4 == IF "d" \in keys THEN ShiftBy(s3, QMul(range, panFraction)) ELSE s3
    IN s4

\* handleWheel, lines 127-136: the zoom branch.
WheelZoom(st, deltaY, mouseX, width) ==
    LET range == QSub(st.visibleEndTime, st.visibleStartTime)
        zoomFactor == QAdd(QInt(1), Q(Abs(deltaY), 1000))
        frac == Q(mouseX, width)
        timeAtMouse == QAdd(st.visibleStartTime, QMul(frac, range))
        newRange == IF deltaY > 0 THEN QMul(range, zoomFactor) ELSE QDiv(range, zoomFactor)
        newStart == QSub(timeAtMouse, QMul(frac, newRange))
    IN [st EXCEPT !.visibleStartTime = newStart,
                  !.visibleEndTime = QAdd(newStart, newRange)]

\* A vertical scroll that is not clamped.
WheelPan_Unclamped(st, deltaX, deltaY, width) ==
    LET range == QSub(st.visibleEndTime, st.visibleStartTime)
    IN IF Abs(deltaX) > Abs(deltaY)
       THEN ShiftBy(st, QMul(Q(deltaX, width), range))
       ELSE [st EXCEPT !.scrollTop = st.scrollTop + deltaY]

\* A wheel event whose deltas tie pans the time window.
WheelPan_TiePansTime(st, deltaX, deltaY, width) ==
    LET range == QSub(st.visibleEndTime, st.visibleStartTime)
    IN IF Abs(deltaX) >= Abs(deltaY)
       THEN ShiftBy(st, QMul(Q(deltaX, width), range))
       ELSE [st EXCEPT !.scrollTop = Max(0, st.scrollTop + deltaY)]

\* handleWheel, lines 138-151: the pan / scroll branch.
WheelPan(st, deltaX, deltaY, width) ==
    LET range == QSub(st.visibleEndTime, st.visibleStartTime)
    IN IF Abs(deltaX) > Abs(deltaY)
       THEN ShiftBy(st, QMul(Q(deltaX, width), range))
       ELSE [st EXCEPT !.scrollTop = Max(0, st.scrollTop + deltaY)]

\* handleWheel (lines 121-153).  e = [ctrlKey, deltaX, deltaY, offsetX].
WheelResult(st, e, width) ==
    IF e.ctrlKey THEN WheelZoom(st, e.deltaY, e.offsetX, width)
    ELSE WheelPan(st, e.deltaX, e.deltaY, width)

\* handleMouseMove, lines 167-184: the drag branch.
DragResult(st, x, y, width) ==
    LET deltaX == x - st.lastMouseX
        deltaY == y - st.lastMouseY
        range == QSub(st.visibleEndTime, st.visibleStartTime)
        timeShift == QNeg(QMul(Q(deltaX, width), range))
        s1 == ShiftBy(st, timeShift)
    IN [s1 EXCEPT !.scrollTop = Max(0, st.scrollTop - deltaY),
                  !.lastMouseX = x, !.lastMouseY = y]

\* handleMouseUp, lines 223-228: `dist < 5`.
IsClick(st, x, y) ==
    (x - st.dragStartX) * (x - st.dragStartX)
        + (y - st.dragStartY) * (y - st.dragStartY) < 5 * 5

\* The animation frame callback render() (lines 62-108): the held keys are
\* applied, then the frame is drawn from the state.
Tick ==
    /\ lastOp' = "tick"
    /\ Mounted
    /\ viewState' = ApplyKeys(viewState, keysPressed)
    /\ UNCHANGED <<hoveredEvent, keysPressed>>
    /\ UNCHANGED appVars

handleKeyDown(key) ==
    /\ lastOp' = "keyDown"
    /\ Mounted
    /\ keysPressed' = keysPressed \cup {key}
    /\ UNCHANGED <<viewState, hoveredEvent>>
    /\ UNCHANGED appVars

handleKeyUp(key) ==
    /\ lastOp' = "keyUp"
    /\ Mounted
    /\ keysPressed' = keysPressed \ {key}
    /\ UNCHANGED <<viewState, hoveredEvent>>
    /\ UNCHANGED appVars

handleWheel(e) ==
    /\ lastOp' = "wheel"
    /\ Mounted
    /\ viewState' = WheelResult(viewState, e, ClientWidth)
    /\ UNCHANGED <<hoveredEvent, keysPressed>>
    /\ UNCHANGED appVars

handleMouseDown(x, y) ==
    /\ lastOp' = "mouseDown"
    /\ Mounted
    /\ viewState' = [viewState EXCEPT !.isDragging = TRUE,
                                      !.lastMouseX = x, !.lastMouseY = y,
                                      !.dragStartX = x, !.dragStartY = y]
    /\ UNCHANGED <<hoveredEvent, keysPressed>>
    /\ UNCHANGED appVars

handleMouseMove(x, y) ==
    /\ Mounted
    /\ IF viewState.isDragging
       THEN /\ viewState' = DragResult(viewState, x, y, ClientWidth)
            /\ hoveredEvent' = {}
            /\ lastOp' = "mouseMoveDrag"
       ELSE /\ lastOp' = "mouseMoveHover"
            /\ hoveredEvent' = getEventAt(model, QInt(x), y,
                                          viewState.visibleStartTime,
                                          viewState.visibleEndTime,
                                          viewState.scrollTop, ClientWidth)
            /\ UNCHANGED viewState
    /\ UNCHANGED keysPressed
    /\ UNCHANGED appVars

\* handleMouseUp (lines 217-232); onEventSelected is App's setSelectedEvent.
handleMouseUp(x, y) ==
    /\ Mounted
    /\ viewState' = [viewState EXCEPT !.isDragging = FALSE]
    /\ selectedEvent' = IF IsClick(viewState, x, y) THEN hoveredEvent ELSE selectedEvent
    /\ lastOp' = IF IsClick(viewState, x, y) THEN "mouseUpClick" ELSE "mouseUpPan"
    /\ UNCHANGED <<hoveredEvent, keysPressed, model, uploader, reads>>

handleMouseLeave ==
    /\ lastOp' = "mouseLeave"
    /\ Mounted
    /\ viewState' = [viewState EXCEPT !.isDragging = FALSE]
    /\ hoveredEvent' = {}
    /\ UNCHANGED keysPressed
    /\ UNCHANGED appVars

---------------------------------------------------------------------------
(* TraceUploader (components/TraceUploader.tsx) and App.                   *)

\* A file's text: well-formed JSON text of a value, or malformed text.
FileText(wellFormed, json) == [wellFormed |-> wellFormed, json |-> json]

\* JSON.parse: the value of well-formed text; it raises on malformed text.
JSONParse(text) ==
    IF text.wellFormed THEN [ok |-> TRUE, value |-> text.json]
    ELSE [ok |-> FALSE, value |-> JsonNull]

\* reader.onload, lines 20-24: the model handed to onUpload, or an error
\* result when JSON.parse or parseTrace raises.
Ingest(text) ==
    LET j == JSONParse(text)
    IN IF j.ok THEN parseTrace(j.value) ELSE ErrorResult

\* The files of the sessions.  The spec's nested scenario (A 0..100,
\* B 10..30) with an instant event, a
\* second thread and a named process.
NestedTrace ==
    << Rec("process_name", "M", 0, {}, {1}, {0}, {"Renderer"}),
       Rec("A", "X", 0, {100}, {1}, {1}, NoArgsName),
       Rec("B", "X", 10, {20}, {1}, {1}, NoArgsName),
       Rec("I", "X", 50, {}, {1}, {1}, NoArgsName),
       Rec("D", "X", 40, {40}, {1}, {2}, NoArgsName) >>

\* Partially overlapping spans: P 0..10, Q 5..60, R 12..40.
OverlapTrace ==
    << Rec("P", "X", 0, {10}, {2}, {1}, NoArgsName),
       Rec("Q", "X", 5, {55}, {2}, {1}, NoArgsName),
       Rec("R", "X", 12, {28}, {2}, {1}, NoArgsName) >>

\* Malformed text, a document of an unrecognised shape, and the two traces
\* in the two recognised shapes.
AppFiles ==
    { FileText(FALSE, JsonNull),
      FileText(TRUE, JsonObject(FALSE, <<>>)),
      FileText(TRUE, JsonArray(NestedTrace)),
      FileText(TRUE, JsonObject(TRUE, OverlapTrace)) }

\* reader.onload's outcome for each file of the sessions, computed once per
\* file.
IngestResults == [text \in AppFiles |-> Ingest(text)]

IdleUploader == [isLoading |-> FALSE, error |-> FALSE]

\* A failed attempt that unloads the trace.
ModelAfterFailure_Cleared(m) == NullModel

\* What a failed attempt does to the model, lines 25-30: nothing.
ModelAfterFailure(m) == m

\* What a failed attempt does to the uploader that started it, lines 25-30.
UploaderAfterFailure(u) == [isLoading |-> FALSE, error |-> TRUE]

\* The FileReader objects in flight are told apart by a number.
FreeReadId == CHOOSE id \in 1..(Cardinality(reads) + 1) : \A r \in reads : r.id # id

\* handleFile (lines 14-33) on the mounted uploader: a FileReader starts.
handleFile(text) ==
    /\ lastOp' = "handleFile"
    /\ ~Mounted
    /\ uploader' = [isLoading |-> TRUE, error |-> FALSE]
    /\ reads' = reads \cup {[id |-> FreeReadId, text |-> text, orphan |-> FALSE]}
    /\ UNCHANGED <<model, selectedEvent, viewState, hoveredEvent, keysPressed>>

\* reader.onload (lines 19-31) of a read in flight.  A read is an orphan
\* when the uploader that started it has unmounted: its setState calls do
\* nothing, its onUpload is still App's setModel.
readerOnload(r) ==
    /\ r \in reads
    /\ LET m == IngestResults[r.text] IN
       IF m.kind = "model"
       THEN /\ model' = m
            /\ lastOp' = "onloadModel"
            /\ uploader' = IdleUploader
            /\ reads' = {[q EXCEPT !.orphan = TRUE] : q \in reads \ {r}}
            /\ IF Mounted
               THEN /\ viewState' = ResetView(viewState, m)
                    /\ UNCHANGED <<hoveredEvent, keysPressed>>
               ELSE /\ viewState' = InitialViewState(m)
                    /\ hoveredEvent' = {}
                    /\ keysPressed' = {}
            /\ UNCHANGED selectedEvent
       ELSE /\ model' = ModelAfterFailure(model)
            /\ lastOp' = "onloadFailed"
            /\ uploader' = IF r.orphan THEN uploader ELSE UploaderAfterFailure(uploader)
            /\ reads' = reads \ {r}
            /\ UNCHANGED <<selectedEvent, viewState, hoveredEvent, keysPressed>>

\* The FileReader fails to read: no onerror handler is installed.
readerError(r) ==
    /\ lastOp' = "readerError"
    /\ r \in reads
    /\ reads' = reads \ {r}
    /\ UNCHANGED <<model, selectedEvent, uploader, viewState, hoveredEvent, keysPressed>>

\* The 'Load New Trace' button (App, lines 16-20): the Timeline unmounts
\* and a new uploader mounts.
loadNewTrace ==
    /\ lastOp' = "loadNewTrace"
    /\ Mounted
    /\ model' = NullModel
    /\ selectedEvent' = {}
    /\ viewState' = NoViewState
    /\ hoveredEvent' = {}
    /\ keysPressed' = {}
    /\ uploader' = IdleUploader
    /\ UNCHANGED reads

\* DetailsPanel's close button (App, line 31).
closeDetails ==
    /\ lastOp' = "closeDetails"
    /\ Mounted
    /\ selectedEvent # {}
    /\ selectedEvent' = {}
    /\ UNCHANGED <<model, uploader, reads, viewState, hoveredEvent, keysPressed>>

---------------------------------------------------------------------------
(* The inputs parseTrace is applied to.                                    *)

OptDur == {{}} \cup {{d} : d \in 0..MaxDur}

\* Spans of one thread, every start and duration of the bounded ranges.
TimingRecords ==
    {Rec("A", "X", ts, dur, {1}, {1}, NoArgsName) : ts \in 0..MaxTs, dur \in OptDur}

\* pid and tid: absent, 0 or 1.
OptIds == {{}, {0}, {1}}

\* What a record is, apart from its ids and its time: a span, the two
\* naming records, naming records without a usable args.name, and a
\* Metadata record that is no naming record.
RecordKinds ==
    { [name |-> "A", ph |-> "X", dur |-> {1}, argsName |-> NoArgsName],
      [name |-> "process_name", ph |-> "M", dur |-> {}, argsName |-> {"Renderer"}],
      [name |-> "thread_name", ph |-> "M", dur |-> {}, argsName |-> {"Main"}],
      [name |-> "process_name", ph |-> "M", dur |-> {}, argsName |-> NoArgsName],
      [name |-> "thread_name", ph |-> "M", dur |-> {}, argsName |-> {""}],
      [name |-> "other", ph |-> "M", dur |-> {}, argsName |-> {"Renderer"}] }

AttributionRecords ==
    {Rec(k.name, k.ph, ts, k.dur, pid, tid, k.argsName) :
        k \in RecordKinds, ts \in 0..1, pid \in OptIds, tid \in OptIds}

\* Documents of every shape: not an array, an object with and without
\* traceEvents, arrays holding a null.
ShapeElements == {NullElement, Rec("A", "X", 0, {1}, {1}, {1}, NoArgsName)}

ShapeInputs ==
    {JsonNull, JsonScalar, JsonObject(FALSE, <<>>)}
    \cup {JsonObject(TRUE, s) : s \in SeqsUpTo(ShapeElements, MaxEvents - 1)}
    \cup {JsonArray(s) : s \in SeqsUpTo(ShapeElements, MaxEvents - 1)}

---------------------------------------------------------------------------
(* Specification SpecParse: parseTrace applied to one bounded input: an    *)
(* array of up to MaxEvents spans of one thread, an array of up to         *)
(* MaxEvents - 1 records of every kind and id, or a document of another    *)
(* shape.                                                                  *)

\* The rest of the application while parseTrace alone is studied.
AppIdle ==
    /\ model = NullModel
    /\ selectedEvent = {}
    /\ uploader = IdleUploader
    /\ reads = {}
    /\ viewState = NoViewState
    /\ hoveredEvent = {}
    /\ keysPressed = {}
    /\ lastOp = "init"
    /\ steps = 0

InitParse ==
    /\ \/ \E k \in 0..MaxEvents : \E s \in [1..k -> TimingRecords] : data = JsonArray(s)
       \/ \E k \in 1..(MaxEvents - 1) : \E s \in [1..k -> AttributionRecords] :
             data = JsonArray(s)
       \/ data \in ShapeInputs
    /\ out = Pending
    /\ AppIdle

ParseTraceCall ==
    /\ out = Pending
    /\ out' = parseTrace(data)
    /\ lastOp' = "parseTrace"
    /\ UNCHANGED <<data, model, selectedEvent, uploader, reads, viewState,
                   hoveredEvent, keysPressed, steps>>

NextParse == ParseTraceCall

SpecParse == InitParse /\ [][NextParse]_vars

---------------------------------------------------------------------------
(* Specification SpecView: one Timeline mounted on a model, driven by up   *)
(* to MaxSteps ticks, key, wheel and pointer events, and by the completion *)
(* of a read that an earlier uploader left in flight.                      *)

ViewModels == {parseTrace(JsonArray(NestedTrace)), parseTrace(JsonArray(OverlapTrace))}

Keys == {"w", "s", "a", "d"}

WheelEvent(ctrlKey, deltaX, deltaY, offsetX) ==
    [ctrlKey |-> ctrlKey, deltaX |-> deltaX, deltaY |-> deltaY, offsetX |-> offsetX]

\* Zoom in and out at a pointer, horizontal pans, vertical scrolls, and a
\* wheel event whose two deltas tie.
WheelInputs ==
    { WheelEvent(TRUE, 0, 500, 270), WheelEvent(TRUE, 0, -500, 270),
      WheelEvent(TRUE, 0, 500, 320),
      WheelEvent(FALSE, 32, 0, 270), WheelEvent(FALSE, -32, 0, 270),
      WheelEvent(FALSE, 0, 30, 270), WheelEvent(FALSE, 0, -30, 270),
      WheelEvent(FALSE, 30, 30, 270) }

\* Pointer positions: on spans, 4 pixels from one of them, on a process
\* header, and in the label column.
PointerInputs ==
    { <<300, 100>>, <<297, 103>>, <<240, 120>>, <<250, 40>>, <<100, 100>> }

\* The reads that can still be in flight when the Timeline mounts: none, or
\* one started on the uploader before the trace on display was loaded.
LateReads ==
    {{}} \cup {{[id |-> 1, text |-> t, orphan |-> TRUE]} :
                  t \in {FileText(TRUE, JsonArray(NestedTrace)),
                         FileText(TRUE, JsonObject(TRUE, OverlapTrace)),
                         FileText(FALSE, JsonNull)}}

InitView ==
    /\ data = JsonNull
    /\ out = Pending
    /\ model \in ViewModels
    /\ selectedEvent = {}
    /\ uploader = IdleUploader
    /\ reads \in LateReads
    /\ viewState = InitialViewState(model)
    /\ hoveredEvent = {}
    /\ keysPressed = {}
    /\ lastOp = "init"
    /\ steps = 0

\* One more handler run, within the bound.
Stepped ==
    /\ steps < MaxSteps
    /\ steps' = steps + 1
    /\ UNCHANGED <<data, out>>

NextView ==
    \/ Stepped /\ Tick
    \/ \E key \in Keys : Stepped /\ handleKeyDown(key)
    \/ \E key \in Keys : Stepped /\ handleKeyUp(key)
    \/ \E e \in WheelInputs : Stepped /\ handleWheel(e)
    \/ \E p \in PointerInputs : Stepped /\ handleMouseDown(p[1], p[2])
    \/ \E p \in PointerInputs : Stepped /\ handleMouseMove(p[1], p[2])
    \/ \E p \in PointerInputs : Stepped /\ handleMouseUp(p[1], p[2])
    \/ Stepped /\ handleMouseLeave
    \/ \E r \in reads : Stepped /\ readerOnload(r)

SpecView == InitView /\ [][NextView]_vars

---------------------------------------------------------------------------
(* Specification SpecApp: the whole session.  Files are chosen on the      *)
(* uploader, their reads complete in any order, the Timeline is clicked    *)
(* and dragged, the details panel is closed and the trace is unloaded.     *)

\* Two pointer positions on spans, 10 pixels apart.
AppPointerInputs == { <<300, 100>>, <<290, 100>> }

InitApp ==
    /\ data = JsonNull
    /\ out = Pending
    /\ AppIdle

\* The window start is within MaxPan of the start of the trace.
WithinPan ==
    Mounted =>
        LET d == QSub(viewState.visibleStartTime, QInt(The(model.minTime)))
        IN QLe(QInt(0 - MaxPan), d) /\ QLe(d, QInt(MaxPan))

\* A handler run of the session, within the bounds.
InSession ==
    /\ UNCHANGED <<data, out, steps>>
    /\ Cardinality(reads') <= MaxReads
    /\ WithinPan'

NextApp ==
    \/ \E text \in AppFiles : handleFile(text) /\ InSession
    \/ \E r \in reads : readerOnload(r) /\ InSession
    \/ \E r \in reads : readerError(r) /\ InSession
    \/ loadNewTrace /\ InSession
    \/ closeDetails /\ InSession
    \/ \E p \in AppPointerInputs : handleMouseDown(p[1], p[2]) /\ InSession
    \/ \E p \in AppPointerInputs : handleMouseMove(p[1], p[2]) /\ InSession
    \/ \E p \in AppPointerInputs : handleMouseUp(p[1], p[2]) /\ InSession
    \/ handleMouseLeave /\ InSession

SpecApp == InitApp /\ [][NextApp]_vars

---------------------------------------------------------------------------
(* Specification SpecUpload: the ingestion attempts of the session.  Files *)
(* are chosen on the uploader, each read ends with a load or an error      *)
(* event, and the trace is unloaded.  Every FileReader ends its read: the  *)
(* browser fires one of the two events for every readAsText.               *)

\* A read in flight ends, with either event.
ReadCompletes ==
    \E r \in reads : (readerOnload(r) \/ readerError(r)) /\ InSession

NextUpload ==
    \/ \E text \in AppFiles : handleFile(text) /\ InSession
    \/ \E r \in reads : readerOnload(r) /\ InSession
    \/ \E r \in reads : readerError(r) /\ InSession
    \/ loadNewTrace /\ InSession

SpecUpload == InitApp /\ [][NextUpload]_vars /\ WF_vars(ReadCompletes)

---------------------------------------------------------------------------
(* Specification SpecRender: one frame.  render, with its grid, and        *)
(* getEventAt are applied to one model and one view state, drawn from      *)
(* windows of positive, zero, negative and infinite range.                 *)

\* One instant event: a model whose minTime equals its maxTime.
InstantTrace == << Rec("I", "X", 8, {}, {1}, {1}, NoArgsName) >>

RenderModels == ViewModels \cup {parseTrace(JsonArray(InstantTrace))}

\* Window bounds; Infinity and -Infinity are the bounds of an empty model.
RenderTimes == {QInt(0), QInt(8), QInt(12), QInt(60), Q(1, 0), Q(-1, 0)}

RenderScrolls == {0, 30, 100}

\* Canvas heights: every track fits, and the last ones do not.
RenderHeights == {ClientHeight, 100}

\* Pointer positions: on rows, in the label column, below every track, on
\* a process header.
RenderPointers ==
    { <<300, 70>>, <<300, 94>>, <<260, 94>>, <<100, 70>>, <<300, 190>>, <<300, 40>> }

RenderInput(m, vs, ve, scrollTop, height, x, y) ==
    [kind |-> "renderInput", model |-> m, visibleStartTime |-> vs, visibleEndTime |-> ve,
     scrollTop |-> scrollTop, height |-> height, x |-> x, y |-> y]

InitRender ==
    /\ \E m \in RenderModels, vs \in RenderTimes, ve \in RenderTimes,
          scrollTop \in RenderScrolls, height \in RenderHeights, p \in RenderPointers :
          data = RenderInput(m, vs, ve, scrollTop, height, p[1], p[2])
    /\ out = Pending
    /\ AppIdle

\* One frame drawn and one hit test made on the input.
RenderCall ==
    /\ out = Pending
    /\ out' = [kind |-> "frame",
               grid |-> drawGrid(data.visibleStartTime, data.visibleEndTime, ClientWidth),
               drawn |-> Render(data.model, data.visibleStartTime, data.visibleEndTime,
                                data.scrollTop, ClientWidth, data.height),
               bands |-> RenderBands(data.model, data.visibleStartTime,
                                     data.visibleEndTime, data.scrollTop, ClientWidth,
                                     data.height),
               hit |-> getEventAt(data.model, QInt(data.x), data.y,
                                  data.visibleStartTime, data.visibleEndTime,
                                  data.scrollTop, ClientWidth),
               hitBands |-> HitBands(data.model, QInt(data.x), data.y,
                                     data.visibleStartTime, data.visibleEndTime,
                                     data.scrollTop, ClientWidth)]
    /\ lastOp' = "render"
    /\ UNCHANGED <<data, model, selectedEvent, uploader, reads, viewState,
                   hoveredEvent, keysPressed, steps>>

NextRender == RenderCall

SpecRender == InitRender /\ [][NextRender]_vars

---------------------------------------------------------------------------
(* The colour of an event (CanvasRenderer.ts, lines 135 and 239-246).  A   *)
(* name is the sequence of its UTF-16 code units.  A 32-bit integer is the *)
(* pair <<hi, lo>> of its halves, of value hi * 65536 + lo with hi in      *)
(* -32768..32767 and lo in 0..65535, so that no intermediate value leaves  *)
(* the integers of the model checker.                                      *)

PaletteSize == 24

\* ToInt32 of hi * 65536 + lo: the value wrapped to -2^31 .. 2^31 - 1.
ToInt32(hi, lo) ==
    LET l == lo % 65536
        u == (hi + (lo \div 65536)) % 65536
    IN <<IF u >= 32768 THEN u - 65536 ELSE u, l>>

Int32Value(h) == h[1] * 65536 + h[2]

\* hashString, lines 242-243: `hash = (hash << 5) - hash + code; hash |= 0`.
HashStep(hash, code) ==
    LET shifted == ToInt32(32 * hash[1], 32 * hash[2])
    IN ToInt32(shifted[1] - hash[1], shifted[2] - hash[2] + code)

\* The value of `hash` after the first n iterations of the loop.
RECURSIVE HashUpTo(_, _)
HashUpTo(str, n) ==
    IF n = 0 THEN <<0, 0>> ELSE HashStep(HashUpTo(str, n - 1), str[n])

\* hashString (lines 239-246).
hashString(str) == HashUpTo(str, Len(str))

\* `Math.abs(h) % n` on doubles; Math.abs(-2^31) is 2^31.
AbsMod(h, n) ==
    IF h[1] >= 0 THEN (h[1] * (65536 % n) + h[2]) % n
    ELSE ((0 - h[1]) * (65536 % n) - h[2]) % n

\* A colour index that takes the remainder without Math.abs: `%` of a
\* negative number is negative.
ColorIndexOfName_Signed(name) ==
    LET h == hashString(name)
    IN IF h[1] >= 0 THEN AbsMod(h, PaletteSize) ELSE 0 - AbsMod(h, PaletteSize)

\* drawThreadTrack, line 135: the palette index of a name.
ColorIndexOfName(name) == AbsMod(hashString(name), PaletteSize)

\* drawThreadTrack, lines 134-136: the palette index of an event.
colorIndex(event) == ColorIndexOfName(event.name)

---------------------------------------------------------------------------
(* Specification SpecHash: the colours of two events are computed.  The    *)
(* first has any name of up to MaxNameLen code units over a small          *)
(* alphabet, or one of a few chosen names; the second has the same name or *)
(* another, and any process, thread, time and depth.                       *)

\* A name whose hash is 2^31 before wrapping and -2^31 after:
\* 2325 * 31^4 + 9 * 31^3 + 30 * 31^2 + 12 * 31 + 2 = 2^31.
WrappingName == <<2325, 9, 30, 12, 2>>

\* WrappingName and "Render".
ChosenNames == { WrappingName, <<82, 101, 110, 100, 101, 114>> }

NameCodes == {0, 65, 65535}

HashNames ==
    ChosenNames \cup UNION {[1..k -> NameCodes] : k \in 0..MaxNameLen}

ColoredEvent(name, pid, tid, ts, depth) ==
    [name |-> name, pid |-> pid, tid |-> tid, ts |-> ts, depth |-> depth]

InitHash ==
    /\ \E n \in HashNames, n2 \in {<<>>, <<65>>}, same \in BOOLEAN,
          pid \in {1, 2}, tid \in {1, 2}, ts \in {0, 7}, depth \in {0, 1} :
          data = [kind |-> "events",
                  a |-> ColoredEvent(n, 1, 1, 0, 0),
                  b |-> ColoredEvent(IF same THEN n ELSE n2, pid, tid, ts, depth)]
    /\ out = Pending
    /\ AppIdle

\* The two events are drawn: their palette indices are computed.
ColorCall ==
    /\ out = Pending
    /\ out' = [kind |-> "colors", a |-> colorIndex(data.a), b |-> colorIndex(data.b)]
    /\ lastOp' = "color"
    /\ UNCHANGED <<data, model, selectedEvent, uploader, reads, viewState,
                   hoveredEvent, keysPressed, steps>>

NextHash == ColorCall

SpecHash == InitHash /\ [][NextHash]_vars

---------------------------------------------------------------------------
(* Reading a parsed model.                                                 *)

Parsed == out.kind = "model"

\* The (process, thread) positions of the model.
ThreadsOf(m) ==
    UNION {{<<p, t>> : t \in DOMAIN m.processes[p].threads} : p \in DOMAIN m.processes}

ThreadAt(m, pt) == m.processes[pt[1]].threads[pt[2]]

\* Every place <<p, t, k>> at which the record at input position i is stored.
PlacesOf(m, i) ==
    UNION {{<<pt[1], pt[2], k>> : k \in {j \in DOMAIN ThreadAt(m, pt).events :
                                            ThreadAt(m, pt).events[j].idx = i}} :
           pt \in ThreadsOf(m)}

\* The records of the input, as an array of objects.
InputRecords == {i \in DOMAIN data.elems : data.elems[i].json = "object"}

---------------------------------------------------------------------------
(* C1: every record whose pid and tid are numeric (0 included) and whose   *)
(* phase is not Metadata is stored exactly once, in the Thread keyed by    *)
(* its tid inside the Process keyed by its pid.  The code drops the record *)
(* whose pid and tid are both 0, so this statement is violated.            *)
C1_NumericRecordStoredOnce ==
    Parsed =>
        \A i \in InputRecords :
            LET e == data.elems[i] IN
            (e.pid # {} /\ e.tid # {} /\ e.ph # "M") =>
                /\ Cardinality(PlacesOf(out, i)) = 1
                /\ \A x \in PlacesOf(out, i) :
                      /\ out.processes[x[1]].pid = e.pid
                      /\ out.processes[x[1]].threads[x[2]].tid = e.tid

\* C1's case apart from the dropped record: a span with numeric ids, one
\* of them 0, that is stored.
C1_Probe_StoredWithZeroId ==
    Parsed =>
        \A i \in InputRecords :
            LET e == data.elems[i] IN
            (e.pid # {} /\ e.tid # {} /\ e.ph # "M" /\ ~IsSkipped(e)) =>
                Cardinality(PlacesOf(out, i)) = 1

---------------------------------------------------------------------------
(* C2: the depth of an event is the number of events before it in its      *)
(* Thread's sorted order whose end time is strictly greater than its start *)
(* time; a span nested in one earlier span has depth 1, and a span that    *)
(* starts exactly when the previous one ends has that one's depth.         *)
OpenBefore(events, k) ==
    {j \in 1..(k - 1) : EndTime(events[j]) > events[k].ts}

C2_DepthIsOpenCount ==
    Parsed =>
        \A pt \in ThreadsOf(out) :
            LET events == ThreadAt(out, pt).events IN
            \A k \in DOMAIN events :
                /\ events[k].depth = Cardinality(OpenBefore(events, k))
                \* nested in exactly one earlier span
                /\ (k = 2 /\ events[1].ts <= events[2].ts
                          /\ EndTime(events[2]) <= EndTime(events[1])
                          /\ events[2].ts < EndTime(events[1]))
                       => (events[1].depth = 0 /\ events[2].depth = 1)
                \* a sibling: starts exactly when its predecessor ends, inside
                \* the spans its predecessor is inside
                /\ (k > 1 /\ EndTime(events[k - 1]) = events[k].ts
                          /\ \A j \in OpenBefore(events, k - 1) :
                                EndTime(events[j]) > events[k].ts)
                       => events[k].depth = events[k - 1].depth

\* A thread with a nested span at depth 1 followed by a sibling of the
\* outer span that starts exactly where the outer span ends.
C2_Witness ==
    /\ Parsed
    /\ \E pt \in ThreadsOf(out) :
          LET events == ThreadAt(out, pt).events IN
          /\ Len(events) = 3
          /\ events[2].depth = 1
          /\ events[3].depth = 0
          /\ EndTime(events[1]) = events[3].ts
          /\ events[1].dur # 0

---------------------------------------------------------------------------
(* C5: every Thread's event list is sorted non-decreasing by ts, events    *)
(* with equal ts keeping their relative input order.                       *)
C5_SortedStable ==
    Parsed =>
        \A pt \in ThreadsOf(out) :
            LET events == ThreadAt(out, pt).events IN
            \A j, k \in DOMAIN events :
                j < k =>
                    /\ events[j].ts <= events[k].ts
                    /\ (events[j].ts = events[k].ts => events[j].idx < events[k].idx)

\* An input given out of order, two of its records sharing a timestamp.
C5_Witness ==
    /\ Parsed
    /\ \E pt \in ThreadsOf(out) :
          LET events == ThreadAt(out, pt).events IN
          /\ \E j, k \in DOMAIN events : j < k /\ events[j].idx > events[k].idx
          /\ \E j, k \in DOMAIN events : j < k /\ events[j].ts = events[k].ts

---------------------------------------------------------------------------
(* C6: maxDepth of a Thread is the greatest depth of its events, and 0 for *)
(* a Thread without events.                                                *)
C6_MaxDepthIsMax ==
    Parsed =>
        \A pt \in ThreadsOf(out) :
            LET th == ThreadAt(out, pt) IN
            /\ th.events = <<>> => th.maxDepth = 0
            /\ th.events # <<>> =>
                  /\ \A k \in DOMAIN th.events : th.events[k].depth <= th.maxDepth
                  /\ \E k \in DOMAIN th.events : th.events[k].depth = th.maxDepth

\* A thread whose deepest event is not its last one.
C6_Witness ==
    /\ Parsed
    /\ \E pt \in ThreadsOf(out) :
          LET th == ThreadAt(out, pt) IN
          /\ th.events # <<>>
          /\ th.maxDepth >= 1
          /\ th.events[Len(th.events)].depth < th.maxDepth

---------------------------------------------------------------------------
(* C7: when at least one event is placed in a Thread, minTime is at most   *)
(* the ts of every placed event and maxTime is at least its ts + dur.      *)
C7_TimeBoundsCoverEvents ==
    Parsed =>
        \A pt \in ThreadsOf(out) :
            LET events == ThreadAt(out, pt).events IN
            \A k \in DOMAIN events :
                /\ out.minTime # {}
                /\ out.maxTime # {}
                /\ The(out.minTime) <= events[k].ts
                /\ The(out.maxTime) >= events[k].ts + events[k].dur

\* Two events, neither of which is alone in setting both bounds.
C7_Witness ==
    /\ Parsed
    /\ \E pt \in ThreadsOf(out) :
          LET events == ThreadAt(out, pt).events IN
          /\ \E k \in DOMAIN events : The(out.minTime) < events[k].ts
          /\ \E k \in DOMAIN events : The(out.maxTime) > events[k].ts + events[k].dur
          /\ events[Len(events)].ts + events[Len(events)].dur < The(out.maxTime)

---------------------------------------------------------------------------
(* C8: a Metadata record named process_name (thread_name) with a non-empty *)
(* args.name sets the name of the Process keyed by its pid (the Thread     *)
(* keyed by its pid/tid) and is in no event list; a Process or Thread with *)
(* no such record keeps its default name.  Where several records name the *)
(* same Process or Thread the last one stands.  The code drops the naming  *)
(* record whose pid and tid are both 0 (see C1), so this is violated.      *)
IsProcessNaming(e) ==
    e.json = "object" /\ e.ph = "M" /\ e.name = "process_name" /\ HasArgsName(e)

IsThreadNaming(e) ==
    e.json = "object" /\ e.ph = "M" /\ e.name = "thread_name" /\ HasArgsName(e)

ProcessNamings(pid) ==
    {i \in DOMAIN data.elems : IsProcessNaming(data.elems[i]) /\ data.elems[i].pid = pid}

ThreadNamings(pid, tid) ==
    {i \in DOMAIN data.elems : /\ IsThreadNaming(data.elems[i])
                               /\ data.elems[i].pid = pid
                               /\ data.elems[i].tid = tid}

Last(S) == CHOOSE i \in S : \A j \in S : j <= i

NamingHolds(covered(_)) ==
    /\ \A i \in InputRecords :
          LET e == data.elems[i] IN
          /\ (IsProcessNaming(e) /\ covered(e)) =>
                /\ PlacesOf(out, i) = {}
                /\ \E p \in DOMAIN out.processes :
                      /\ out.processes[p].pid = e.pid
                      /\ out.processes[p].name =
                            GivenName(The(data.elems[Last(ProcessNamings(e.pid))].argsName))
          /\ (IsThreadNaming(e) /\ covered(e)) =>
                /\ PlacesOf(out, i) = {}
                /\ \E pt \in ThreadsOf(out) :
                      /\ out.processes[pt[1]].pid = e.pid
                      /\ ThreadAt(out, pt).tid = e.tid
                      /\ ThreadAt(out, pt).name =
                            GivenName(The(data.elems[Last(ThreadNamings(e.pid, e.tid))].argsName))
    /\ \A p \in DOMAIN out.processes :
          ProcessNamings(out.processes[p].pid) = {} =>
              out.processes[p].name = DefaultProcessName(out.processes[p].pid)
    /\ \A pt \in ThreadsOf(out) :
          ThreadNamings(out.processes[pt[1]].pid, ThreadAt(out, pt).tid) = {} =>
              ThreadAt(out, pt).name = DefaultThreadName(ThreadAt(out, pt).tid)

HasBothIds(e) == e.pid # {} /\ e.tid # {}

C8_NamingRecordSetsName == Parsed => NamingHolds(HasBothIds)

\* C8 apart from the dropped records: it holds of every naming record that
\* the ingestion loop does not skip.
NotSkipped(e) == ~IsSkipped(e)

C8_Probe_UnskippedNamingSetsName == Parsed => NamingHolds(NotSkipped)

---------------------------------------------------------------------------
(* C9: parseTrace raises exactly when its input is neither an array nor an *)
(* object with an array under traceEvents, and returns a model otherwise.  *)
(* The code also raises on an array that holds a null, so this is          *)
(* violated.                                                               *)
C9_ErrorIffUnrecognisedShape ==
    out # Pending =>
        ((out.kind = "error") <=>
            ~(data.kind = "array" \/ (data.kind = "object" /\ data.hasTraceEvents)))

\* C9 apart from null elements: it holds of every input whose array holds
\* objects only.
C9_Probe_ErrorIffShapeWithoutNulls ==
    (out # Pending /\ \A i \in DOMAIN data.elems : data.elems[i].json = "object") =>
        ((out.kind = "error") <=>
            ~(data.kind = "array" \/ (data.kind = "object" /\ data.hasTraceEvents)))

---------------------------------------------------------------------------
(* C3: for every event rectangle that render draws unculled and unclipped, *)
(* getEventAt at the exact centre of the rectangle, with the same view     *)
(* state, returns that event.  The code draws an instant event 1 pixel     *)
(* wide, and paints a later span over an earlier one of the same depth, so *)
(* this statement is violated.                                             *)
PositiveRange == QLt(viewState.visibleStartTime, viewState.visibleEndTime)

Frame ==
    Render(model, viewState.visibleStartTime, viewState.visibleEndTime,
           viewState.scrollTop, ClientWidth, ClientHeight)

\* Neither edge of the event is clamped and the rectangle is on the canvas.
Unclipped(r) ==
    /\ QLe(QInt(LABEL_WIDTH),
           timeToPixel(QInt(r.event.ts), viewState.visibleStartTime,
                       viewState.visibleEndTime, ClientWidth))
    /\ QLe(timeToPixel(QInt(EndTime(r.event)), viewState.visibleStartTime,
                       viewState.visibleEndTime, ClientWidth),
           QInt(ClientWidth))
    /\ QLe(QAdd(r.x, r.w), QInt(ClientWidth))
    /\ r.y >= 0
    /\ r.y + r.h <= ClientHeight

HitAtCenter(r) ==
    getEventAt(model, QAdd(r.x, QDiv(r.w, QInt(2))), r.y + (r.h \div 2),
               viewState.visibleStartTime, viewState.visibleEndTime,
               viewState.scrollTop, ClientWidth)

C3_RenderHitRoundTrip ==
    (Mounted /\ PositiveRange) =>
        \A i \in DOMAIN Frame :
            Unclipped(Frame[i]) => HitAtCenter(Frame[i]) = {Frame[i].event}

\* C3 apart from its two failing cases: the round trip holds of every
\* rectangle whose event is at least one pixel wide and whose centre lies
\* on no rectangle of the same row drawn before it.
CoversEarlier(i) ==
    \E j \in DOMAIN Frame :
        /\ j < i
        /\ Frame[j].y = Frame[i].y
        /\ QLe(Frame[j].x, QAdd(Frame[i].x, QDiv(Frame[i].w, QInt(2))))
        /\ QLe(QAdd(Frame[i].x, QDiv(Frame[i].w, QInt(2))), QAdd(Frame[j].x, Frame[j].w))

TrueWidthAtLeastOne(r) ==
    QLe(QInt(1),
        QSub(timeToPixel(QInt(EndTime(r.event)), viewState.visibleStartTime,
                         viewState.visibleEndTime, ClientWidth),
             timeToPixel(QInt(r.event.ts), viewState.visibleStartTime,
                         viewState.visibleEndTime, ClientWidth)))

C3_Probe_RoundTripOfWideUncovered ==
    (Mounted /\ PositiveRange) =>
        \A i \in DOMAIN Frame :
            (Unclipped(Frame[i]) /\ TrueWidthAtLeastOne(Frame[i])
                /\ ~CoversEarlier(i))
                => HitAtCenter(Frame[i]) = {Frame[i].event}

---------------------------------------------------------------------------
(* C4: a wheel zoom leaves unchanged the timestamp that the render         *)
(* engine's mapping (getEventAt's pixelToTime) gives the pointer's pixel.  *)
(* The handler anchors the zoom with offsetX / width, a mapping that       *)
(* ignores the label column, so this statement is violated.                *)
TimeUnderPointer(st, px) ==
    pixelToTime(QInt(px), st.visibleStartTime, st.visibleEndTime, ClientWidth)

C4_ZoomKeepsTimeUnderPointer ==
    [][\A e \in WheelInputs :
          (e.ctrlKey /\ handleWheel(e)) =>
              TimeUnderPointer(viewState', e.offsetX) = TimeUnderPointer(viewState, e.offsetX)]_vars

\* C4 in the handler's own mapping, time = start + offsetX / width * range:
\* that timestamp is unchanged by the zoom.
HandlerTimeAt(st, px) ==
    QAdd(st.visibleStartTime,
         QMul(Q(px, ClientWidth), QSub(st.visibleEndTime, st.visibleStartTime)))

C4_Probe_ZoomKeepsHandlerTime ==
    [][\A e \in WheelInputs :
          (e.ctrlKey /\ handleWheel(e)) =>
              HandlerTimeAt(viewState', e.offsetX) = HandlerTimeAt(viewState, e.offsetX)]_vars


---------------------------------------------------------------------------
(* C10 *)

\* What a failed attempt may not touch: the loaded model, the selection and
\* the Timeline's state.
SessionState == <<model, selectedEvent, viewState, hoveredEvent, keysPressed>>

\* C10: an ingestion attempt that fails, on malformed text or on a document
\* of an unrecognised shape, changes nothing in the session except the
\* uploader's error message and loading flag: the model, the selection and
\* the view stay as they were, and a model is never handed to the App.
C10_FailedIngestionKeepsSession ==
    [][\A r \in reads :
          (readerOnload(r) /\ Ingest(r.text).kind # "model") =>
              /\ UNCHANGED SessionState
              /\ uploader' \in {uploader, [isLoading |-> FALSE, error |-> TRUE]}]_vars

\* C10 witness: an attempt has just failed while a trace was loaded, with an
\* event selected and the window panned away from the start of the trace.
C10_Witness ==
    /\ lastOp = "onloadFailed"
    /\ Mounted
    /\ selectedEvent # {}
    /\ viewState.visibleStartTime # QInt(The(model.minTime))

\* C10 witness of the ordinary case: the attempt fails on the uploader that
\* started it, which shows the error and stops loading.
C10_Witness_OnUploader ==
    lastOp = "onloadFailed" /\ ~Mounted /\ uploader = [isLoading |-> FALSE, error |-> TRUE]

---------------------------------------------------------------------------
(* C11 *)

\* The squared distance between a pointer position and the drag origin.
DragDistanceSquared(x, y) ==
    (x - viewState.dragStartX) * (x - viewState.dragStartX)
        + (y - viewState.dragStartY) * (y - viewState.dragStartY)

\* The event drawn under a pointer position in the current window.
EventUnderPointer(x, y) ==
    getEventAt(model, QInt(x), y, viewState.visibleStartTime, viewState.visibleEndTime,
               viewState.scrollTop, ClientWidth)

\* What every pointer up does, whatever it reports: the drag ends, the
\* selection callback runs exactly when the pointer is less than 5 pixels
\* from the drag origin, and without the callback the selection stays.
PointerUpFrame(x, y) ==
    /\ ~viewState'.isDragging
    /\ (lastOp' = "mouseUpClick") <=> (DragDistanceSquared(x, y) < 25)
    /\ (DragDistanceSquared(x, y) >= 25) => (selectedEvent' = selectedEvent)

\* C11: on pointer up the drag ends; a selection is reported if and only if
\* the pointer is less than 5 pixels from the drag origin; the reported
\* value is the event under the pointer at that moment; at or above the
\* threshold the selection is unchanged.
C11_PointerUpReportsEventUnderPointer ==
    [][\A p \in PointerInputs :
          handleMouseUp(p[1], p[2]) =>
              /\ PointerUpFrame(p[1], p[2])
              /\ (DragDistanceSquared(p[1], p[2]) < 25) =>
                     (selectedEvent' = EventUnderPointer(p[1], p[2]))]_vars

\* C11, reporting the hovered event instead: the value handed to the
\* selection callback is the hoveredEvent state.
C11_Probe_PointerUpReportsHovered ==
    [][\A p \in PointerInputs :
          handleMouseUp(p[1], p[2]) =>
              /\ PointerUpFrame(p[1], p[2])
              /\ (DragDistanceSquared(p[1], p[2]) < 25) =>
                     (selectedEvent' = hoveredEvent)]_vars

\* C11: a click that slid 4 pixels has just cleared the selection although
\* an event is under the pointer.
C11_Probe_JitterClickSelectsNothing ==
    /\ lastOp = "mouseUpClick"
    /\ selectedEvent = {}
    /\ viewState.dragStartX = 300 /\ viewState.lastMouseX = 297
    /\ EventUnderPointer(297, 103) # {}

---------------------------------------------------------------------------
(* C12 *)

\* C12: the vertical scroll offset is never negative, after any sequence of
\* ticks, wheel events, pointer events and model replacements.
C12_ScrollTopNeverNegative == viewState.scrollTop >= 0

\* C12 witness: the pointer has just been dragged downwards, which asks for
\* a negative offset, and the offset is 0.
C12_Witness ==
    /\ Mounted
    /\ lastOp = "mouseMoveDrag"
    /\ viewState.lastMouseY > viewState.dragStartY
    /\ viewState.scrollTop = 0

---------------------------------------------------------------------------
(* C13 *)

\* A read completes with a model, which App hands to the Timeline.
GivesNewModel(r) == readerOnload(r) /\ Ingest(r.text).kind = "model"

\* C13: whenever a new TraceModel is given to the Timeline, the view state
\* is re-initialised to the model's time bounds with scroll 0, and nothing
\* of the previous session is carried over: no drag in progress, no hover,
\* no selection taken from the old model.
C13_NewModelStartsFresh ==
    [][\A r \in reads :
          GivesNewModel(r) =>
              /\ viewState'.visibleStartTime = QInt(The(model'.minTime))
              /\ viewState'.visibleEndTime = QInt(The(model'.maxTime))
              /\ viewState'.scrollTop = 0
              /\ ~viewState'.isDragging
              /\ hoveredEvent' = {}
              /\ selectedEvent' = {}]_vars

\* C13, the window alone: the visible range and the scroll offset are
\* re-initialised on every new model.
C13_Probe_WindowReset ==
    [][\A r \in reads :
          GivesNewModel(r) =>
              /\ viewState'.visibleStartTime = QInt(The(model'.minTime))
              /\ viewState'.visibleEndTime = QInt(The(model'.maxTime))
              /\ viewState'.scrollTop = 0]_vars

\* C13: a late read has just replaced the model under a drag in progress,
\* and the event selected on the old model is still selected.
C13_Probe_CarriedOver ==
    /\ lastOp = "onloadModel"
    /\ viewState.isDragging
    /\ selectedEvent # {}
    /\ \A i \in DOMAIN model.processes :
          \A j \in DOMAIN model.processes[i].threads :
             \A k \in DOMAIN model.processes[i].threads[j].events :
                model.processes[i].threads[j].events[k] \notin selectedEvent

---------------------------------------------------------------------------
(* C14 *)

RangeOf(st) == QSub(st.visibleEndTime, st.visibleStartTime)

MidpointOf(st) == QDiv(QAdd(st.visibleStartTime, st.visibleEndTime), QInt(2))

\* The per-frame update as stated: each held intent, in the order W, S, A,
\* D, adjusts the range as it stands when the intent is applied.
KeysOnCurrentRange(st, keys) ==
    LET s1 == IF "w" \in keys
              THEN ZoomAboutCenter(st, QMul(RangeOf(st), Q(95, 100))) ELSE st
        s2 == IF "s" \in keys
              THEN ZoomAboutCenter(s1, QMul(RangeOf(s1), Q(105, 100))) ELSE s1
        s3 == IF "a" \in keys
              THEN ShiftBy(s2, QNeg(QMul(RangeOf(s2), Q(2, 100)))) ELSE s2
        s4 == IF "d" \in keys
              THEN ShiftBy(s3, QMul(RangeOf(s3), Q(2, 100))) ELSE s3
    IN s4

\* C14: in a tick every held intent applies its fixed fractional adjustment
\* to the visible range as it currently stands (W and S together scale the
\* range by 0.95 * 1.05), and a tick with no pan key held keeps the
\* midpoint of the window.
C14_KeysAdjustCurrentRange ==
    [][Tick =>
          /\ viewState' = KeysOnCurrentRange(viewState, keysPressed)
          /\ (keysPressed \cap {"a", "d"} = {}) =>
                 (MidpointOf(viewState') = MidpointOf(viewState))]_vars

\* C14 for ticks with at most one key held, and the midpoint in every tick
\* without a pan key.
C14_Probe_OneKeyAndMidpoint ==
    [][Tick =>
          /\ (Cardinality(keysPressed) <= 1) =>
                 (viewState' = KeysOnCurrentRange(viewState, keysPressed))
          /\ (keysPressed \cap {"a", "d"} = {}) =>
                 (MidpointOf(viewState') = MidpointOf(viewState))]_vars

\* C14: a tick with W and S held has just widened the range by 1.05.
C14_Probe_BothZoomKeys ==
    /\ lastOp = "tick"
    /\ keysPressed = {"w", "s"}
    /\ Mounted
    /\ RangeOf(viewState) =
           QMul(QInt(The(model.maxTime) - The(model.minTime)), Q(105, 100))

---------------------------------------------------------------------------
(* C15 *)

Framed == out.kind = "frame"

\* The window of the frame has a zero or negative range.
DegenerateWindow == QLe(data.visibleEndTime, data.visibleStartTime)

EventsOf(m) ==
    UNION {UNION {Range(m.processes[i].threads[j].events) :
                     j \in DOMAIN m.processes[i].threads} : i \in DOMAIN m.processes}

\* render and getEventAt complete: the grid is a list of lines, the hit
\* test names one event of the model or none.
FrameCompletes ==
    /\ out.grid \in Seq({x \in Range(out.grid) : QIsFinite(x)})
    /\ out.hit \in {{}} \cup {{ev} : ev \in EventsOf(data.model)}

\* C15: on a view state with visibleEndTime <= visibleStartTime, render
\* completes, its grid loop terminates and it draws no event rectangle at
\* all, and getEventAt completes and returns an event or none.
C15_DegenerateWindowDrawsNoEvent ==
    (Framed /\ DegenerateWindow) => (FrameCompletes /\ out.drawn = <<>>)

\* C15 without the empty frame: on a degenerate window render and
\* getEventAt complete, no grid line is drawn, and a rectangle is filled
\* on the canvas only for an event that spans the instant of a zero-range
\* window; it fills the whole width.
C15_Probe_DegenerateWindowCompletes ==
    (Framed /\ DegenerateWindow) =>
        /\ FrameCompletes
        /\ out.grid = <<>>
        /\ \A i \in DOMAIN out.drawn :
              \/ QLe(QInt(ClientWidth), out.drawn[i].x)
              \/ /\ data.visibleStartTime = data.visibleEndTime
                 /\ QLt(QInt(out.drawn[i].event.ts), data.visibleStartTime)
                 /\ QLt(data.visibleStartTime, QInt(EndTime(out.drawn[i].event)))
                 /\ out.drawn[i].x = QInt(LABEL_WIDTH)
                 /\ out.drawn[i].w = QInt(ClientWidth - LABEL_WIDTH)

\* C15: a frame of a zero-range window with a rectangle in it.
C15_Probe_ZeroRangeDrawsSpan ==
    /\ Framed
    /\ data.visibleStartTime = data.visibleEndTime
    /\ out.drawn # <<>>

---------------------------------------------------------------------------
(* C16 *)

MinOf(S) == CHOOSE x \in S : \A y \in S : x <= y

MaxOf(S) == CHOOSE x \in S : \A y \in S : y <= x

\* The bounds that a set of start times and a set of end times determine;
\* with no event they stay Infinity and -Infinity.
BoundsAre(starts, ends) ==
    IF starts = {} THEN out.minTime = {} /\ out.maxTime = {}
    ELSE out.minTime = {MinOf(starts)} /\ out.maxTime = {MaxOf(ends)}

\* C16: minTime and maxTime are determined only by the non-metadata records
\* attributed to a Thread: the minimum ts and the maximum ts+dur over the
\* stored events, so a dropped record or a Metadata record changes neither.
C16_TimeBoundsFromStoredEvents ==
    Parsed =>
        BoundsAre({ev.ts : ev \in EventsOf(out)}, {EndTime(ev) : ev \in EventsOf(out)})

\* The records that get past the skip of the ingestion loop, Metadata
\* records included.
Ingested == {i \in InputRecords : ~IsSkipped(data.elems[i])}

RecordEnd(e) == e.ts + (IF e.dur = {} THEN 0 ELSE The(e.dur))

\* C16 with the Metadata records counted: the bounds are those of every
\* record that is not dropped.
C16_Probe_TimeBoundsFromIngested ==
    Parsed =>
        BoundsAre({data.elems[i].ts : i \in Ingested},
                  {RecordEnd(data.elems[i]) : i \in Ingested})

\* C16: minTime is before the start of every stored event.
C16_Probe_MetadataMovesMinTime ==
    /\ Parsed
    /\ EventsOf(out) # {}
    /\ \A ev \in EventsOf(out) : The(out.minTime) < ev.ts

---------------------------------------------------------------------------
(* C17 *)

\* The record is stored once, in the Thread keyed by its pid and tid.
StoredInItsThread(i) ==
    /\ Cardinality(PlacesOf(out, i)) = 1
    /\ \A x \in PlacesOf(out, i) :
          /\ out.processes[x[1]].pid = data.elems[i].pid
          /\ out.processes[x[1]].threads[x[2]].tid = data.elems[i].tid

\* C17: every non-skipped record that is not a recognised naming event is
\* appended to its Thread's event list, a Metadata record with another
\* name or without args.name included.
C17_OtherRecordsAreStored ==
    Parsed =>
        \A i \in Ingested :
            (~IsProcessNaming(data.elems[i]) /\ ~IsThreadNaming(data.elems[i])) =>
                StoredInItsThread(i)

\* C17 for the records whose phase is not Metadata.
C17_Probe_NonMetadataAreStored ==
    Parsed =>
        \A i \in Ingested : (data.elems[i].ph # "M") => StoredInItsThread(i)

\* C17: no Metadata record is in an event list, named or not.
C17_Probe_MetadataNeverStored ==
    Parsed =>
        \A i \in Ingested : (data.elems[i].ph = "M") => (PlacesOf(out, i) = {})

---------------------------------------------------------------------------
(* C18 *)

Colored == out.kind = "colors"

\* C18: the palette index of an event, abs(hash(name)) mod the palette
\* size with a wrapping signed 32-bit hash, is an integer in 0..23, also
\* when the hash is negative or -2^31, and two events with the same name
\* get the same index whatever their process, thread, time and depth.
C18_ColorIndexInPaletteByName ==
    Colored =>
        /\ out.a \in 0..(PaletteSize - 1)
        /\ out.b \in 0..(PaletteSize - 1)
        /\ (data.a.name = data.b.name) => (out.a = out.b)

\* C18 witness: the hash of the name has wrapped to -2^31, and the second
\* event has that name in another process and thread, at another time and
\* depth.
C18_Witness ==
    /\ Colored
    /\ hashString(data.a.name) = <<-32768, 0>>
    /\ data.b.name = data.a.name
    /\ data.b.pid # data.a.pid /\ data.b.tid # data.a.tid
    /\ data.b.ts # data.a.ts /\ data.b.depth # data.a.depth

\* C18 witness: a hash that wrapped to a negative value other than -2^31.
C18_Witness_Negative ==
    /\ Colored
    /\ hashString(data.a.name)[1] < 0
    /\ hashString(data.a.name) # <<-32768, 0>>
    /\ Len(data.a.name) = MaxNameLen

---------------------------------------------------------------------------
(* C19 *)

\* A canvas so tall that no track of the models is below it.
TallCanvas == 5 * ClientHeight

\* The bands render lays out with scroll offset 0 and nothing culled.
UnscrolledBands ==
    RenderBands(data.model, data.visibleStartTime, data.visibleEndTime, 0,
                ClientWidth, TallCanvas)

\* C19: render and getEventAt compute the same vertical layout and culling
\* never changes it: the band top render uses for each Thread equals the
\* one getEventAt uses, both are the band top at scroll offset 0 minus the
\* scroll offset, whichever headers and tracks are culled.
C19_SameLayoutWhateverIsCulled ==
    Framed =>
        /\ \A i \in DOMAIN UnscrolledBands : ~UnscrolledBands[i].culled
        /\ Len(out.bands) = Len(UnscrolledBands)
        /\ \A i \in DOMAIN out.bands :
              /\ out.bands[i].tid = UnscrolledBands[i].tid
              /\ out.bands[i].top = UnscrolledBands[i].top - data.scrollTop
        /\ Len(out.hitBands) <= Len(out.bands)
        /\ \A i \in DOMAIN out.hitBands :
              /\ out.hitBands[i].tid = out.bands[i].tid
              /\ out.hitBands[i].top = out.bands[i].top

\* C19 witness: a scrolled frame whose first track is culled and whose
\* later tracks are drawn, with a hit test that came to every track.
C19_Witness ==
    /\ Framed
    /\ data.scrollTop > 0
    /\ Len(out.bands) >= 3
    /\ out.bands[1].culled
    /\ ~out.bands[2].culled
    /\ Len(out.hitBands) = Len(out.bands)

\* C19 witness: the last track is below the canvas and culled.
C19_Witness_Below ==
    /\ Framed
    /\ Len(out.bands) >= 3
    /\ out.bands[Len(out.bands)].culled
    /\ out.bands[Len(out.bands)].top >= data.height
    /\ Len(out.hitBands) = Len(out.bands)

---------------------------------------------------------------------------
(* C20 *)

\* The threads of a model in the order of the loops, from process i on.
RECURSIVE FlatThreads(_, _)
FlatThreads(procs, i) ==
    IF i > Len(procs) THEN <<>> ELSE procs[i].threads \o FlatThreads(procs, i + 1)

\* The timestamp obtained by inverse-mapping the pointer's x.
TimeAtX ==
    pixelToTime(QInt(data.x), data.visibleStartTime, data.visibleEndTime, ClientWidth)

\* The top of the band of the i-th thread, by C19.
BandTop(i) == UnscrolledBands[i].top - data.scrollTop

\* The band of the i-th thread contains the pointer's y.
BandHoldsY(i) ==
    /\ data.y >= BandTop(i)
    /\ data.y <= BandTop(i) + TrackPixelHeight(FlatThreads(data.model.processes, 1)[i])

\* The events of the i-th thread on the row under y whose interval
\* contains the timestamp under x.
RowMatches(i) ==
    LET events == FlatThreads(data.model.processes, 1)[i].events
    IN {k \in DOMAIN events :
           /\ events[k].depth = FloorDiv(data.y - BandTop(i), TRACK_HEIGHT)
           /\ QLe(QInt(events[k].ts), TimeAtX)
           /\ QLe(TimeAtX, QInt(EndTime(events[k])))}

\* The threads in which the pointer is over an event.
ThreadsHit ==
    IF data.x < LABEL_WIDTH THEN {}
    ELSE {i \in DOMAIN FlatThreads(data.model.processes, 1) :
             BandHoldsY(i) /\ RowMatches(i) # {}}

\* C20: an event returned by getEventAt(x, y, ...) has x >= LABEL_WIDTH,
\* belongs to a Thread whose band contains y, has the depth
\* floor((y - bandTop) / rowHeight) and an interval [ts, ts+dur] that
\* contains the timestamp under x, and is the first such event of the
\* Thread in sorted order; when there is no such event, the result is none.
C20_HitIsFirstMatchOfRow ==
    Framed =>
        IF ThreadsHit = {} THEN out.hit = {}
        ELSE /\ Cardinality(ThreadsHit) = 1
             /\ \A i \in ThreadsHit :
                   out.hit = {FlatThreads(data.model.processes, 1)[i].events[MinOf(RowMatches(i))]}

\* C20 witness: two events of the row contain the timestamp, and the
\* earlier one is returned.
C20_Witness ==
    /\ Framed
    /\ out.hit # {}
    /\ \E i \in ThreadsHit : Cardinality(RowMatches(i)) >= 2

\* C20 witness: a point over a process header, right of the labels, in a
\* window that holds events: the result is none.
C20_Witness_Header ==
    /\ Framed
    /\ out.hit = {}
    /\ data.x >= LABEL_WIDTH
    /\ data.scrollTop = 0
    /\ data.y > HEADER_HEIGHT /\ data.y < HEADER_HEIGHT + TRACK_HEIGHT
    /\ out.drawn # <<>>

---------------------------------------------------------------------------
(* C21 *)

\* The horizontal pointer delta of a pointer move while dragging.
DragDeltaX(x) == x - viewState.lastMouseX

\* The window after the step is the window before it moved by `shift`.
WindowShiftedBy(shift) ==
    /\ viewState'.visibleStartTime = QAdd(viewState.visibleStartTime, shift)
    /\ viewState'.visibleEndTime = QAdd(viewState.visibleEndTime, shift)

C21_Witness_Key ==
    /\ lastOp = "tick"
    /\ keysPressed = {"a"}
    /\ Mounted
    /\ QLt(viewState.visibleStartTime, QInt(The(model.minTime)))
    /\ RangeOf(viewState) = QInt(The(model.maxTime) - The(model.minTime))

---------------------------------------------------------------------------
(* C22 *)

\* The time axis of the view is as it was before the step.
TimeAxisKept ==
    /\ viewState'.visibleStartTime = viewState.visibleStartTime
    /\ viewState'.visibleEndTime = viewState.visibleEndTime

\* The drag in progress, its origin, the hover state and the selection are
\* as they were before the step.
GestureAndSelectionKept ==
    /\ viewState'.isDragging = viewState.isDragging
    /\ viewState'.dragStartX = viewState.dragStartX
    /\ viewState'.dragStartY = viewState.dragStartY
    /\ hoveredEvent' = hoveredEvent
    /\ selectedEvent' = selectedEvent

\* C22: a wheel event changes one axis of the view: with the zoom modifier,
\* or without it when |deltaX| > |deltaY|, scrollTop is unchanged; without
\* the modifier when |deltaX| <= |deltaY| the visible window is unchanged;
\* and no wheel event changes isDragging, the drag origin, the hover state
\* or the selection.
C22_WheelChangesOneAxis ==
    [][\A e \in WheelInputs :
          handleWheel(e) =>
              /\ (e.ctrlKey \/ Abs(e.deltaX) > Abs(e.deltaY)) =>
                     (viewState'.scrollTop = viewState.scrollTop)
              /\ (~e.ctrlKey /\ Abs(e.deltaX) <= Abs(e.deltaY)) => TimeAxisKept
              /\ GestureAndSelectionKept]_vars

\* C22: a wheel event has just scrolled the tracks of a trace whose window
\* is still the whole trace, while an event is hovered and a drag is in
\* progress.
C22_Witness ==
    /\ lastOp = "wheel"
    /\ Mounted
    /\ viewState.scrollTop > 0
    /\ viewState.visibleStartTime = QInt(The(model.minTime))
    /\ viewState.visibleEndTime = QInt(The(model.maxTime))
    /\ hoveredEvent # {}
    /\ viewState.isDragging

\* C22: a wheel event has just changed the window of a scrolled view.
C22_Witness_Time ==
    /\ lastOp = "wheel"
    /\ Mounted
    /\ viewState.scrollTop > 0
    /\ viewState.visibleStartTime # QInt(The(model.minTime))

---------------------------------------------------------------------------
(* C23 *)

\* The mounted uploader shows an attempt's outcome: the loading indicator
\* is cleared and either a model was handed to onUpload (the Timeline is
\* mounted) or an error message is shown, not both.
AttemptCompleted ==
    /\ ~uploader.isLoading
    /\ Mounted # uploader.error

\* C23: every ingestion attempt eventually completes: the loading
\* indicator set by handleFile is eventually cleared, with either a new
\* model or a reported error, whatever the outcome of the file read.
C23_EveryAttemptCompletes == uploader.isLoading ~> AttemptCompleted

\* C23 for the attempts whose read ends with a load event.
C23_Probe_LoadedReadsComplete ==
    [](lastOp # "readerError") => (uploader.isLoading ~> AttemptCompleted)

\* C23: a read has failed and its uploader still shows the loading
\* indicator, with no read in flight.
C23_Probe_StuckLoading ==
    /\ lastOp = "readerError"
    /\ uploader.isLoading
    /\ reads = {}

---------------------------------------------------------------------------
(* C24 *)

\* Two events share more than an endpoint of their intervals.
OverlapBeyondEndpoint(a, b) == Max(a.ts, b.ts) < Min(EndTime(a), EndTime(b))

\* Every pair of the sorted list is disjoint or nested: the later event
\* starts at or after the end of the earlier one, or ends inside it.
ProperlyNested(events) ==
    \A j, k \in DOMAIN events :
        j < k => \/ EndTime(events[j]) <= events[k].ts
                 \/ EndTime(events[k]) <= EndTime(events[j])

\* C24: after parseTrace, no two distinct events of one Thread with the
\* same depth have intervals that overlap in more than an endpoint.
C24_SameDepthEventsDisjoint ==
    Parsed =>
        \A pt \in ThreadsOf(out) :
            LET events == ThreadAt(out, pt).events IN
            \A j, k \in DOMAIN events :
                (j < k /\ events[j].depth = events[k].depth) =>
                    ~OverlapBeyondEndpoint(events[j], events[k])

\* C24 for the Threads whose events are disjoint or nested, pair by pair.
C24_Probe_DisjointWhenProperlyNested ==
    Parsed =>
        \A pt \in ThreadsOf(out) :
            LET events == ThreadAt(out, pt).events IN
            ProperlyNested(events) =>
                \A j, k \in DOMAIN events :
                    (j < k /\ events[j].depth = events[k].depth) =>
                        ~OverlapBeyondEndpoint(events[j], events[k])

\* C24: two events of one Thread have the same depth and one lies inside
\* the other.
C24_Probe_SameDepthInside ==
    /\ Parsed
    /\ \E pt \in ThreadsOf(out) :
          LET events == ThreadAt(out, pt).events IN
          \E j, k \in DOMAIN events :
              /\ j < k
              /\ events[j].depth = events[k].depth
              /\ events[j].ts < events[k].ts
              /\ EndTime(events[k]) <= EndTime(events[j])
              /\ events[k].ts < EndTime(events[k])

\* C24: properly nested events of three depths.
C24_Probe_NestedThreeDeep ==
    /\ Parsed
    /\ \E pt \in ThreadsOf(out) :
          /\ ProperlyNested(ThreadAt(out, pt).events)
          /\ ThreadAt(out, pt).maxDepth = 2

---------------------------------------------------------------------------
(* C25 *)

\* The selected event and the hovered event are none or events of model m.
ShownEventsAreOf(m, selected, hovered) ==
    /\ selected \subseteq EventsOf(m)
    /\ hovered \subseteq EventsOf(m)

\* C25: in every state of the session, the selected event shown in the
\* details panel and the hovered event held by the Timeline are none or
\* events of the current TraceModel.
C25_ShownEventsAreOfCurrentModel ==
    ShownEventsAreOf(model, selectedEvent, hoveredEvent)

\* C25 step by step: every handler run keeps the property, except the
\* completion of a read that replaces the model of a mounted Timeline.
C25_Probe_KeptUnlessModelReplaced ==
    [][(/\ ShownEventsAreOf(model, selectedEvent, hoveredEvent)
        /\ ~(Mounted /\ lastOp' = "onloadModel"))
           => ShownEventsAreOf(model', selectedEvent', hoveredEvent')]_vars

\* C25: the details panel shows an event of a model that a late read has
\* replaced, and the Timeline hovers one.
C25_Probe_StaleSelectionAndHover ==
    /\ Mounted
    /\ selectedEvent # {}
    /\ hoveredEvent # {}
    /\ selectedEvent \cap EventsOf(model) = {}
    /\ hoveredEvent \cap EventsOf(model) = {}

---------------------------------------------------------------------------
(* C26 *)

\* A drag is in progress and it has panned the view.  lastMouseX leaves
\* dragStartX only in a pointer move while dragging with a horizontal delta
\* other than 0, and such a move shifts a window whose range is not 0.
GesturePanned ==
    /\ viewState.isDragging
    /\ viewState.lastMouseX # viewState.dragStartX
    /\ RangeOf(viewState) # QInt(0)

\* C26: a gesture that panned the view makes no selection callback on its
\* pointer up, wherever the pointer is released, and leaves the selection.
C26_PannedGestureSelectsNothing ==
    [][\A p \in PointerInputs :
          (GesturePanned /\ handleMouseUp(p[1], p[2])) =>
              /\ lastOp' # "mouseUpClick"
              /\ selectedEvent' = selectedEvent]_vars

\* C26 for the gestures released 5 pixels or more from the drag origin.
C26_Probe_FarReleaseSelectsNothing ==
    [][\A p \in PointerInputs :
          (/\ GesturePanned
           /\ DragDistanceSquared(p[1], p[2]) >= 25
           /\ handleMouseUp(p[1], p[2])) =>
              /\ lastOp' # "mouseUpClick"
              /\ selectedEvent' = selectedEvent]_vars

\* C26: a pointer up has just made the selection callback although the
\* drag it ends has moved the window.
C26_Probe_PannedGestureClicks ==
    /\ lastOp = "mouseUpClick"
    /\ Mounted
    /\ viewState.lastMouseX # viewState.dragStartX
    /\ viewState.visibleStartTime # QInt(The(model.minTime))
    /\ RangeOf(viewState) = QInt(The(model.maxTime) - The(model.minTime))

\* C26: a pointer up far from the drag origin has just ended a drag that
\* moved the window.
C26_Probe_PannedGestureEnds ==
    /\ lastOp = "mouseUpPan"
    /\ Mounted
    /\ viewState.lastMouseX # viewState.dragStartX
    /\ viewState.visibleStartTime # QInt(The(model.minTime))

---------------------------------------------------------------------------
(* C27 *)

\* The range of the model on display, maxTime - minTime.
ModelRange == QInt(The(model.maxTime) - The(model.minTime))

\* C27: navigation never changes the sign of the visible range: on a model
\* with minTime < maxTime, after any sequence of ticks with any held keys,
\* wheel zooms and pans and drag moves, visibleEndTime > visibleStartTime.
C27_RangeStaysPositive ==
    (Mounted /\ The(model.minTime) < The(model.maxTime)) =>
        QLt(viewState.visibleStartTime, viewState.visibleEndTime)

\* C27: a wheel zoom has just narrowed a window that earlier zooms and pans
\* had already changed, to less than half of the trace.
C27_Witness ==
    /\ lastOp = "wheel"
    /\ Mounted
    /\ QLt(QMul(RangeOf(viewState), QInt(2)), ModelRange)
    /\ QLt(QInt(The(model.minTime)), viewState.visibleStartTime)

\* C27: a tick with W and D held has just narrowed and moved the window.
C27_Witness_Keys ==
    /\ lastOp = "tick"
    /\ Mounted
    /\ keysPressed = {"w", "d"}
    /\ RangeOf(viewState) = QMul(ModelRange, Q(95, 100))

===========================================================================
